---- MODULE Spec2Model ----
(***************************************************************************)
(* PII analyzer: the Analysis Service (src/api/analysis_service.py) and    *)
(* the adaptive Scheduler process_files_parallel                           *)
(* (src/core/worker_management.py) over the Result Store.                  *)
(*                                                                         *)
(* The Store (src/database/db_utils.py, src/core/file_discovery.py) is not *)
(* part of the sources at hand; its operations are modelled from section   *)
(* 4.1 of the specification.                                               *)
(***************************************************************************)
EXTENDS Integers, Sequences, FiniteSets, TLC

VARIABLES
    state,            \* AnalysisService._state
    current_job_id,   \* AnalysisService._current_job_id (0 is None)
    stop_event,       \* AnalysisService._stop_requested (threading.Event)
    error_message,    \* AnalysisService._error_message ("" is None)
    data_is_dir,      \* os.path.isdir(self._data_path)
    batch_size,       \* AnalysisService._batch_size (PII_BATCH_SIZE)
    analyzer,         \* behaviour of the external AnalyzeFile
    nthreads,         \* number of _run_analysis threads spawned so far
    run,              \* per run thread: position and locals of _run_analysis / process_files_parallel
    jobs,             \* Store table jobs: job_id -> status
    files,            \* Store table files (+ entity rows): file_id -> row
    counters,         \* Store table jobs, aggregate counters: job_id -> counters
    single,           \* a thread-pool worker inside process_single_file
    api_pc,           \* an API thread inside stop_analysis: past its guard or not
    workers,          \* AnalysisService._workers (PII_WORKERS or calculate_optimal_workers())
    host,             \* what psutil reports: cpu_count, total memory (GB), or that it raises
    status_call,      \* an API thread inside get_status: the reads it has made
    hist              \* history of the run, read by the properties only

vars == <<state, current_job_id, stop_event, error_message, data_is_dir,
          batch_size, analyzer, nthreads, run, jobs, files, counters, single,
          api_pc, workers, host, status_call, hist>>

(***************************************************************************)
(* Bounds of the model                                                     *)
(***************************************************************************)
MaxRuns == 2
MaxFiles == 2
MaxScan == 2
MaxSingleCalls == 1
MaxRunScan == 3

(***************************************************************************)
(* Program constants                                                       *)
(***************************************************************************)
MAX_CONSECUTIVE_ERRORS == 50
MIN_BATCH_SIZE == 20
MAX_BATCH_SIZE == 50
BATCH_STEP_SIZE == 10
MIN_CPU_UTILIZATION == 60
MAX_CPU_UTILIZATION == 80
WORKER_STEP_SIZE == 10
WORKER_EMERGENCY_REDUCTION == 20
FALLBACK_WORKERS == 16

\* Load factors are counted in tenths: 1.5 is 15, 2.0 is 20, 0.8 is 8.
MAX_LOAD_FACTOR == 15
CRITICAL_LOAD_FACTOR == 20

Threads == 1..MaxRuns
FileIds == DOMAIN files

\* The batch sizes PII_BATCH_SIZE is given in the small model.
BatchSizes == {1, 2}

\* The worker count PII_WORKERS is given in the small model.
WorkerCounts == {16}

Max(a, b) == IF a >= b THEN a ELSE b
Min(a, b) == IF a <= b THEN a ELSE b
MinOf(S) == CHOOSE x \in S : \A y \in S : x <= y

TimeoutMessage == "Processing timeout (180s)"
AnalyzerMessage == "analyzer error"

(***************************************************************************)
(* Result Store                                                            *)
(***************************************************************************)
NewFile(j) == [job_id |-> j, status |-> "pending", error_message |-> "", entity_sets |-> 0]

DeletedFile == [job_id |-> 0, status |-> "deleted", error_message |-> "", entity_sets |-> 0]

RegisterFiles(j, k) == files \o [n \in 1..k |-> NewFile(j)]

PendingSet(j) == {f \in FileIds : files[f].job_id = j /\ files[f].status = "pending"}

RECURSIVE FirstN(_, _)
FirstN(S, n) ==
    IF n <= 0 \/ S = {} THEN <<>>
    ELSE LET m == MinOf(S) IN <<m>> \o FirstN(S \ {m}, n - 1)

GetPendingFiles(j, limit) == FirstN(PendingSet(j), limit)

\* The boolean mark_file_processing returns.
CanMarkProcessing(f) == f \in FileIds /\ files[f].status = "pending"

MarkFileProcessing(f) ==
    IF CanMarkProcessing(f) THEN [files EXCEPT ![f].status = "processing"] ELSE files

StoreFileResults(fs, f) ==
    IF f \in DOMAIN fs /\ fs[f].status # "deleted"
    THEN [fs EXCEPT ![f].entity_sets = @ + 1]
    ELSE fs

MarkFileCompleted(fs, f) ==
    IF f \in DOMAIN fs /\ fs[f].status = "processing"
    THEN [fs EXCEPT ![f].status = "completed"]
    ELSE fs

MarkFileError(fs, f, msg) ==
    IF f \in DOMAIN fs /\ fs[f].status = "processing"
    THEN [fs EXCEPT ![f].status = "error", ![f].error_message = msg]
    ELSE fs

UpdateJobStatus(js, j, s) ==
    IF j \in DOMAIN js /\ js[j] # "absent" THEN [js EXCEPT ![j] = s] ELSE js

\* The aggregate counters of a job row.
NoCounters == [total_files |-> 0, processed_files |-> 0, error_files |-> 0]

\* RegisterFiles adds the rows it inserted to total_files of the job.
CountRegistered(cs, j, k) ==
    IF j \in DOMAIN cs THEN [cs EXCEPT ![j].total_files = @ + k] ELSE cs

\* MarkFileCompleted increments processed_files of the job in the transaction
\* of its conditional update, i.e. when the row was in processing.
CountCompleted(cs, fs, f, j) ==
    IF f \in DOMAIN fs /\ fs[f].status = "processing" /\ j \in DOMAIN cs
    THEN [cs EXCEPT ![j].processed_files = @ + 1]
    ELSE cs

\* MarkFileError increments error_files of the job likewise.
CountError(cs, fs, f, j) ==
    IF f \in DOMAIN fs /\ fs[f].status = "processing" /\ j \in DOMAIN cs
    THEN [cs EXCEPT ![j].error_files = @ + 1]
    ELSE cs

\* GetFileStatistics(job_id)[s]: the number of rows of the job in status s.
GetFileStatistics(j, s) ==
    Cardinality({f \in FileIds : files[f].job_id = j /\ files[f].status = s})

ResetStalledFiles(j) ==
    [f \in FileIds |->
        IF files[f].job_id = j /\ files[f].status = "processing"
        THEN [files[f] EXCEPT !.status = "pending"]
        ELSE files[f]]

(***************************************************************************)
(* Load Sampler and control law                                            *)
(***************************************************************************)
\* get_system_utilization: lines 101-132, what the host reports.
get_system_utilization ==
    [cpu_percent |-> host.cpu_percent,
     memory_percent |-> host.memory_percent,
     load_factor |-> host.load_factor]

\* calculate_optimal_workers(current_workers, utilization_info): lines
\* 153-194, the adjustment of a running Scheduler.
calculate_optimal_workers(current_workers, utilization_info) ==
    LET current_cpu == utilization_info.cpu_percent
        current_memory == utilization_info.memory_percent
        current_load_factor == utilization_info.load_factor
    IN IF current_load_factor > CRITICAL_LOAD_FACTOR
       THEN Max(8, current_workers
                     - Min(WORKER_EMERGENCY_REDUCTION, current_workers \div 3))
       ELSE IF current_load_factor > MAX_LOAD_FACTOR
       THEN Max(8, current_workers
                     - Min(WORKER_STEP_SIZE * 2, current_workers \div 5))
       ELSE IF current_cpu < MIN_CPU_UTILIZATION /\ current_memory < 80
               /\ current_load_factor < 8
       THEN current_workers + WORKER_STEP_SIZE
       ELSE IF current_cpu > MAX_CPU_UTILIZATION \/ current_memory > 90
       THEN Max(8, current_workers - WORKER_STEP_SIZE)
       ELSE current_workers

\* The integers x up to 256 for which the double x * 0.7 is below the
\* integer 7x/10: 0.7 is stored as a double slightly below 0.7 and the
\* product is rounded to the double below the integer.
RoundsBelow == {90, 170, 180}

\* int(x * c) for the double c nearest to num/10 or num/100 (den is 10 or
\* 100), as Python computes it for an integer x up to 256: the floor of the
\* exact product, except where the double product falls below an integer
\* (no such x for 0.5, 0.6, 0.75, 0.8, 0.9).
IntOfProduct(x, num, den) ==
    IF num = 7 /\ den = 10 /\ x \in RoundsBelow
    THEN (x * num) \div den - 1
    ELSE (x * num) \div den

\* min of three, as min(base_workers, max_by_memory, 64) of line 204.
Min3(a, b, c) == Min(a, Min(b, c))

\* calculate_optimal_workers(): lines 148-151 and 196-247, the initial
\* sizing from the CPU count and the memory of host h, and the fallback when
\* psutil raises.
calculate_initial_workers(h) ==
    LET cpu_count == h.cpu_count
        memory_gb == h.memory_gb
    IN IF h.raises THEN FALLBACK_WORKERS
       ELSE IF cpu_count >= 96
       THEN Min3(IntOfProduct(cpu_count, 5, 10), IntOfProduct(memory_gb, 7, 10), 64)
       ELSE IF cpu_count >= 32
       THEN Min(Min(24, IntOfProduct(cpu_count, 75, 100)), IntOfProduct(memory_gb, 6, 10))
       ELSE IF cpu_count >= 8
       THEN Min(Max(4, IntOfProduct(cpu_count, 8, 10)), IntOfProduct(memory_gb, 6, 10))
       ELSE Min(Max(2, IntOfProduct(cpu_count, 9, 10)), IntOfProduct(memory_gb, 6, 10))

\* An adaptation whose increase and decrease are not clamped.
AdaptBatchSize_Unclamped(current_batch_size, utilization) ==
    LET cpu_percent == utilization.cpu_percent
        memory_percent == utilization.memory_percent
        load_factor == utilization.load_factor
        b1 == IF load_factor > CRITICAL_LOAD_FACTOR /\ current_batch_size > MIN_BATCH_SIZE
              THEN MIN_BATCH_SIZE
              ELSE current_batch_size
    IN IF load_factor < 8 /\ cpu_percent < MIN_CPU_UTILIZATION /\ memory_percent < 80
       THEN b1 + BATCH_STEP_SIZE
       ELSE IF load_factor > MAX_LOAD_FACTOR \/ cpu_percent > MAX_CPU_UTILIZATION
               \/ memory_percent > 90
       THEN b1 - BATCH_STEP_SIZE
       ELSE b1

\* Lines 337-371: the batch size after one adaptation.
AdaptBatchSize(current_batch_size, utilization) ==
    LET cpu_percent == utilization.cpu_percent
        memory_percent == utilization.memory_percent
        load_factor == utilization.load_factor
        b1 == IF load_factor > CRITICAL_LOAD_FACTOR /\ current_batch_size > MIN_BATCH_SIZE
              THEN MIN_BATCH_SIZE
              ELSE current_batch_size
    IN IF load_factor < 8 /\ cpu_percent < MIN_CPU_UTILIZATION /\ memory_percent < 80
       THEN Min(MAX_BATCH_SIZE, b1 + BATCH_STEP_SIZE)
       ELSE IF load_factor > MAX_LOAD_FACTOR \/ cpu_percent > MAX_CPU_UTILIZATION
               \/ memory_percent > 90
       THEN Max(MIN_BATCH_SIZE, b1 - BATCH_STEP_SIZE)
       ELSE b1

(***************************************************************************)
(* Analysis Service                                                        *)
(***************************************************************************)
is_running == state \in {"scanning", "processing"}

NoRun == [pc |-> "none", job_id |-> 0, pending_files |-> <<>>, i |-> 0,
          futures |-> {}, cur |-> 0, consecutive_errors |-> 0,
          stop_requested |-> FALSE, files_remaining |-> TRUE,
          processed_count |-> 0, error_count |-> 0, current_batch_size |-> 0,
          max_workers |-> 0, current_max_workers |-> 0, running |-> {},
          scaling_due |-> FALSE,
          broken |-> FALSE, status |-> "none"]

\* A thread that has returned keeps no locals.
DoneRun == [NoRun EXCEPT !.pc = "done"]

Active(t) == run[t].pc \notin {"none", "done"}

\* No progress event delivered yet.
NoEvent == [type |-> "none", file_id |-> 0]

\* progress_callback({'type': ..., 'file_id': ...}): lines 484-491 and
\* 528-532; the event of the except clause names no file (file_id 0).
ProgressEvent(type, f) == [type |-> type, file_id |-> f]

NoHist == [stop_phase |-> [t \in Threads |-> "no"],
           streak |-> [t \in Threads |-> 0],
           tripped |-> [t \in Threads |-> FALSE],
           pending_at_trip |-> [t \in Threads |-> {}],
           beyond |-> [t \in Threads |-> FALSE],
           rejected |-> {},
           store_raised |-> {},
           stop_issued |-> FALSE,
           stop_in_scan |-> [t \in Threads |-> FALSE],
           cycles |-> [t \in Threads |-> 0],
           progress |-> [t \in Threads |-> NoEvent],
           claimed |-> [t \in Threads |-> 0]]

NoSingle == [pc |-> "idle", file_id |-> 0, calls |-> 0]

\* The host before anything is known of it.
NoHost == [cpu_count |-> 0, memory_gb |-> 0, raises |-> FALSE,
           cpu_percent |-> 0, memory_percent |-> 0, load_factor |-> 0]

\* No get_status call under way.
NoStatusCall == [pc |-> "idle", state |-> "none", is_running |-> FALSE,
                 can_start |-> FALSE, can_stop |-> FALSE]

\* hist.stop_phase[t], for the Scheduler of run thread t: "batch" once Stop
\* was called while it was in a batch (submitting or draining), "closed" once
\* that batch has ended or when Stop was called between two batches.
\* hist.streak[t]: the failures in a row, in completion order, since the last
\* success of the run; hist.tripped[t]: streak[t] has reached
\* MAX_CONSECUTIVE_ERRORS; hist.pending_at_trip[t]: the pending files then.
\* hist.beyond[t]: when Stop was called, files of the job were pending beyond
\* the batch the Scheduler was in. hist.rejected: the kinds of calls that were
\* answered success=false so far. hist.store_raised: the Store calls of the
\* Scheduler that have raised so far. hist.stop_issued: a Stop call has
\* raised the stop signal. hist.stop_in_scan[t]: the stop signal was raised
\* while run thread t was in its discovery pass. hist.cycles[t]: the
\* adaptations the Scheduler of run thread t has made. hist.progress[t]: the
\* last progress event the Scheduler of run thread t delivered to the sink.
\* hist.claimed[t]: the file the Scheduler of run thread t claimed last.

\* History kept when run thread t ends: its stop phase and streak end with it.
HistEnd(h, t) ==
    [h EXCEPT !.stop_phase[t] = "no", !.streak[t] = 0, !.beyond[t] = FALSE,
              !.stop_in_scan[t] = FALSE, !.cycles[t] = 0,
              !.progress[t] = NoEvent, !.claimed[t] = 0]

\* The pending files of the job of run thread t that are not in its batch.
PendingBeyondBatch(t) ==
    {f \in PendingSet(run[t].job_id) :
        \/ run[t].pc = "loop"
        \/ /\ run[t].pc \in {"submit", "drain", "complete"}
           /\ \A k \in DOMAIN run[t].pending_files : run[t].pending_files[k] # f}

\* History of one more failure observed by the Scheduler of thread t.
HistFailure(h, t, fs) ==
    LET n == h.streak[t] + 1
        trip == n >= MAX_CONSECUTIVE_ERRORS /\ ~h.tripped[t]
    IN [h EXCEPT !.streak[t] = n,
                 !.tripped[t] = @ \/ trip,
                 !.pending_at_trip[t] =
                     IF trip
                     THEN {f \in DOMAIN fs : fs[f].job_id = run[t].job_id
                                             /\ fs[f].status = "pending"}
                     ELSE @]

\* start_analysis: lines 154-189.
StartAnalysis ==
    /\ ~is_running
    /\ data_is_dir
    /\ stop_event' = FALSE
    /\ error_message' = ""
    /\ nthreads' = nthreads + 1
    /\ run' = [run EXCEPT ![nthreads + 1].pc = "spawned"]
    /\ UNCHANGED <<state, current_job_id, data_is_dir, batch_size, analyzer,
                   jobs, files, single, hist>>
    /\ UNCHANGED counters
    /\ UNCHANGED api_pc
    /\ UNCHANGED <<workers, host, status_call>>

\* A start_analysis that resets the run state before it looks at the guards.
StartAnalysisRejected_ResetFirst ==
    /\ is_running \/ ~data_is_dir
    /\ stop_event' = FALSE
    /\ error_message' = ""
    /\ hist' = [hist EXCEPT !.rejected =
                   @ \cup {IF is_running THEN "start_running" ELSE "start_no_path"}]
    /\ UNCHANGED <<state, current_job_id, data_is_dir, batch_size, analyzer,
                   nthreads, run, jobs, files, counters, single>>
    /\ UNCHANGED api_pc
    /\ UNCHANGED <<workers, host, status_call>>

\* start_analysis: lines 156-169, the two early returns with success False.
StartAnalysisRejected ==
    /\ is_running \/ ~data_is_dir
    /\ hist' = [hist EXCEPT !.rejected =
                   @ \cup {IF is_running THEN "start_running" ELSE "start_no_path"}]
    /\ UNCHANGED <<state, current_job_id, stop_event, error_message, data_is_dir,
                   batch_size, analyzer, nthreads, run, jobs, files, counters, single>>
    /\ UNCHANGED api_pc
    /\ UNCHANGED <<workers, host, status_call>>

\* stop_analysis: lines 193-198, the early return with success False.
StopAnalysisRejected ==
    /\ ~is_running
    /\ hist' = [hist EXCEPT !.rejected = @ \cup {"stop_not_running"}]
    /\ UNCHANGED <<state, current_job_id, stop_event, error_message, data_is_dir,
                   batch_size, analyzer, nthreads, run, jobs, files, counters, single>>
    /\ UNCHANGED api_pc
    /\ UNCHANGED <<workers, host, status_call>>

\* clear_results: lines 212-217, the early return with success False.
ClearResultsRejected ==
    /\ is_running
    /\ hist' = [hist EXCEPT !.rejected = @ \cup {"clear_running"}]
    /\ UNCHANGED <<state, current_job_id, stop_event, error_message, data_is_dir,
                   batch_size, analyzer, nthreads, run, jobs, files, counters, single>>
    /\ UNCHANGED api_pc
    /\ UNCHANGED <<workers, host, status_call>>

\* stop_analysis: lines 191-208.
\* History of the stop signal being raised.
HistStop(h) ==
    [h EXCEPT !.stop_phase =
                   [t \in Threads |->
                       IF h.stop_phase[t] = "closed" THEN "closed"
                       ELSE IF run[t].pc \in {"submit", "drain", "complete"} THEN "batch"
                       ELSE IF run[t].pc \in {"loop", "ret"} THEN "closed"
                       ELSE h.stop_phase[t]],
              !.beyond =
                   [t \in Threads |->
                       h.beyond[t] \/ PendingBeyondBatch(t) # {}],
              !.stop_issued = TRUE,
              !.stop_in_scan =
                   [t \in Threads |-> h.stop_in_scan[t] \/ run[t].pc = "scan"]]

\* stop_analysis: lines 191-208, with no step of another thread between its
\* guard and its writes.
StopAnalysis ==
    /\ is_running
    /\ state' = "stopping"
    /\ stop_event' = TRUE
    /\ hist' = HistStop(hist)
    /\ UNCHANGED <<current_job_id, error_message, data_is_dir, batch_size,
                   analyzer, nthreads, run, jobs, files, single>>
    /\ UNCHANGED counters
    /\ UNCHANGED api_pc
    /\ UNCHANGED <<workers, host, status_call>>

\* stop_analysis: lines 193-198, the guard is passed. No lock is held, so the
\* run routine may take steps before the writes of lines 201-202.
StopAnalysisGuard ==
    /\ api_pc = "idle"
    /\ is_running
    /\ api_pc' = "stop"
    /\ UNCHANGED <<state, current_job_id, stop_event, error_message, data_is_dir,
                   batch_size, analyzer, nthreads, run, jobs, files, counters,
                   single, hist>>
    /\ UNCHANGED <<workers, host, status_call>>

\* stop_analysis: lines 201-202, state STOPPING and the stop event set.
StopAnalysisWrite ==
    /\ api_pc = "stop"
    /\ state' = "stopping"
    /\ stop_event' = TRUE
    /\ hist' = HistStop(hist)
    /\ api_pc' = "idle"
    /\ UNCHANGED <<current_job_id, error_message, data_is_dir, batch_size,
                   analyzer, nthreads, run, jobs, files, counters, single>>
    /\ UNCHANGED <<workers, host, status_call>>

\* clear_results: lines 210-244. Removing the database file removes every row.
ClearResults ==
    /\ ~is_running
    /\ jobs' = [j \in DOMAIN jobs |-> "absent"]
    /\ files' = [f \in FileIds |-> DeletedFile]
    /\ counters' = [j \in DOMAIN counters |-> NoCounters]
    /\ state' = "idle"
    /\ current_job_id' = 0
    /\ error_message' = ""
    /\ UNCHANGED <<stop_event, data_is_dir, batch_size, analyzer, nthreads,
                   run, single, hist>>
    /\ UNCHANGED api_pc
    /\ UNCHANGED <<workers, host, status_call>>

\* __init__: lines 71-94 with PII_WORKERS not set; the worker count is
\* calculate_optimal_workers().
ServiceInit ==
    /\ state = "uninitialized"
    /\ state' = "idle"
    /\ workers' = calculate_initial_workers(host)
    /\ UNCHANGED <<current_job_id, stop_event, error_message, data_is_dir,
                   batch_size, analyzer, nthreads, run, jobs, files, counters,
                   single, api_pc, host, status_call, hist>>

\* get_status: line 107, 'state' is read from self._state. No lock is held
\* in get_status; other threads may take steps between its reads.
GetStatusReadState ==
    /\ status_call.pc = "idle"
    /\ status_call' = [NoStatusCall EXCEPT !.pc = "state", !.state = state]
    /\ UNCHANGED <<state, current_job_id, stop_event, error_message, data_is_dir,
                   batch_size, analyzer, nthreads, run, jobs, files, counters,
                   single, api_pc, workers, host, hist>>

\* get_status: line 109, 'is_running' reads self._state again.
GetStatusReadIsRunning ==
    /\ status_call.pc = "state"
    /\ status_call' = [status_call EXCEPT !.pc = "is_running", !.is_running = is_running]
    /\ UNCHANGED <<state, current_job_id, stop_event, error_message, data_is_dir,
                   batch_size, analyzer, nthreads, run, jobs, files, counters,
                   single, api_pc, workers, host, hist>>

\* get_status: line 110, 'can_start' reads self._state again.
GetStatusReadCanStart ==
    /\ status_call.pc = "is_running"
    /\ status_call' = [status_call EXCEPT !.pc = "can_start", !.can_start = (state = "idle")]
    /\ UNCHANGED <<state, current_job_id, stop_event, error_message, data_is_dir,
                   batch_size, analyzer, nthreads, run, jobs, files, counters,
                   single, api_pc, workers, host, hist>>

\* get_status: line 111, 'can_stop' reads self._state again; the result is
\* complete as far as the state goes.
GetStatusReadCanStop ==
    /\ status_call.pc = "can_start"
    /\ status_call' = [status_call EXCEPT !.pc = "done", !.can_stop = is_running]
    /\ UNCHANGED <<state, current_job_id, stop_event, error_message, data_is_dir,
                   batch_size, analyzer, nthreads, run, jobs, files, counters,
                   single, api_pc, workers, host, hist>>

\* get_status: line 152, the result is returned.
GetStatusReturn ==
    /\ status_call.pc = "done"
    /\ status_call' = NoStatusCall
    /\ UNCHANGED <<state, current_job_id, stop_event, error_message, data_is_dir,
                   batch_size, analyzer, nthreads, run, jobs, files, counters,
                   single, api_pc, workers, host, hist>>

\* The except clause of _run_analysis: lines 374-378.
RunException(t, msg) ==
    /\ state' = "error"
    /\ error_message' = msg
    /\ run' = [run EXCEPT ![t] = DoneRun]

\* _run_analysis: lines 282-291, state SCANNING and create_job.
RunBegin(t) ==
    /\ run[t].pc = "spawned"
    /\ state' = "scanning"
    /\ jobs' = [jobs EXCEPT ![t] = "pending"]
    /\ current_job_id' = t
    /\ run' = [run EXCEPT ![t].pc = "scan"]
    /\ UNCHANGED <<stop_event, error_message, data_is_dir, batch_size,
                   analyzer, nthreads, files, single, hist>>
    /\ UNCHANGED counters
    /\ UNCHANGED api_pc
    /\ UNCHANGED <<workers, host, status_call>>

\* _run_analysis: lines 301-307, scan_directory registers k files.
RunScan(t, k) ==
    /\ run[t].pc = "scan"
    /\ files' = RegisterFiles(current_job_id, k)
    /\ counters' = CountRegistered(counters, current_job_id, k)
    /\ run' = [run EXCEPT ![t].pc = "scanned"]
    /\ UNCHANGED <<state, current_job_id, stop_event, error_message,
                   data_is_dir, batch_size, analyzer, nthreads, jobs, single, hist>>
    /\ UNCHANGED api_pc
    /\ UNCHANGED <<workers, host, status_call>>

\* _run_analysis: lines 309-312.
RunCheckStop(t) ==
    /\ run[t].pc = "scanned"
    /\ IF stop_event
       THEN /\ state' = "idle"
            /\ run' = [run EXCEPT ![t] = DoneRun]
            /\ hist' = HistEnd(hist, t)
       ELSE /\ run' = [run EXCEPT ![t].pc = "stats"]
            /\ UNCHANGED <<state, hist>>
    /\ UNCHANGED <<current_job_id, stop_event, error_message, data_is_dir,
                   batch_size, analyzer, nthreads, jobs, files, single>>
    /\ UNCHANGED counters
    /\ UNCHANGED api_pc
    /\ UNCHANGED <<workers, host, status_call>>

\* A run routine that calls process_files_parallel whatever the pending count.
RunEnterProcessing_NoEmptyCheck(t) ==
    /\ run[t].pc = "stats"
    /\ state' = "processing"
    /\ jobs' = UpdateJobStatus(jobs, current_job_id, "running")
    /\ run' = [run EXCEPT ![t].pc = "loop",
                          ![t].job_id = current_job_id,
                          ![t].files_remaining = TRUE,
                          ![t].current_batch_size = batch_size,
                          ![t].max_workers = workers,
                          ![t].current_max_workers = workers]
    /\ UNCHANGED <<current_job_id, stop_event, error_message, data_is_dir,
                   batch_size, analyzer, nthreads, files, single, hist>>
    /\ UNCHANGED counters
    /\ UNCHANGED api_pc
    /\ UNCHANGED <<workers, host, status_call>>

\* _run_analysis: lines 318-356, up to the call of process_files_parallel
\* and its initialisation (lines 279-314).
RunEnterProcessing(t) ==
    /\ run[t].pc = "stats"
    /\ IF PendingSet(current_job_id) = {}
       THEN /\ state' = "completed"
            /\ run' = [run EXCEPT ![t] = DoneRun]
            /\ hist' = HistEnd(hist, t)
            /\ UNCHANGED jobs
       ELSE /\ state' = "processing"
            /\ jobs' = UpdateJobStatus(jobs, current_job_id, "running")
            /\ run' = [run EXCEPT ![t].pc = "loop",
                                  ![t].job_id = current_job_id,
                                  ![t].files_remaining = TRUE,
                                  ![t].current_batch_size = batch_size,
                                  ![t].max_workers = workers,
                                  ![t].current_max_workers = workers]
            /\ UNCHANGED hist
    /\ UNCHANGED <<current_job_id, stop_event, error_message, data_is_dir,
                   batch_size, analyzer, nthreads, files, single>>
    /\ UNCHANGED counters
    /\ UNCHANGED api_pc
    /\ UNCHANGED <<workers, host, status_call>>

(***************************************************************************)
(* Adaptive Scheduler: process_files_parallel                              *)
(***************************************************************************)
\* The external AnalyzeFile: what its worker may return for file f. "slow"
\* sleeps 200 s (more than WORKER_TIMEOUT_SECONDS) and then succeeds; "hang"
\* does not return before as_completed gives up.
OutcomeAllowed(f, o) ==
    CASE analyzer = "fail_all" -> o = "fail"
      [] analyzer = "burst" -> o = (IF f \in 11..60 THEN "fail" ELSE "ok")
      [] analyzer = "slow" -> o = "ok"
      [] analyzer = "ok_all" -> o = "ok"
      [] analyzer = "hang" -> FALSE
      [] OTHER -> TRUE

\* Whether a worker may still be running when as_completed gives up.
MayHang == analyzer \in {"any", "hang"}

\* A submit loop that ignores what mark_file_processing returned.
ShouldSubmit_Always(t, f) == TRUE

\* Line 396: the file is handed to the pool iff the claim succeeded.
ShouldSubmit(t, f) == CanMarkProcessing(f)

\* A batch loop that also ends once a file has been processed.
LoopExits_AfterFirstFile(t, pending) ==
    stop_event \/ pending = <<>> \/ run[t].processed_count > 0

\* Lines 321-324 and 380-382: the two exits at the head of the batch loop.
\* The max_files test of line 319 is never true: the Service passes no
\* max_files (analysis_service.py:347-356).
LoopExits(t, pending) ==
    stop_event \/ pending = <<>>

\* Lines 319-382: the head of the batch loop.
SchedLoopTop(t) ==
    /\ run[t].pc = "loop"
    /\ LET pending == GetPendingFiles(run[t].job_id, run[t].current_batch_size)
       IN IF LoopExits(t, pending)
          THEN run' = [run EXCEPT ![t].files_remaining = FALSE, ![t].pc = "ret"]
          ELSE run' = [run EXCEPT ![t].pending_files = pending,
                                  ![t].i = 1,
                                  ![t].futures = {},
                                  ![t].pc = "submit"]
    /\ UNCHANGED <<state, current_job_id, stop_event, error_message, data_is_dir,
                   batch_size, analyzer, nthreads, jobs, files, single, hist>>
    /\ UNCHANGED counters
    /\ UNCHANGED api_pc
    /\ UNCHANGED <<workers, host, status_call>>

\* Lines 325-374: the adaptation at the head of the batch loop, made when
\* more than SCALING_INTERVAL seconds have passed since the last one. The
\* pool keeps the size it was created with (line 318).
SchedAdapt(t) ==
    /\ run[t].pc = "loop"
    /\ run[t].scaling_due
    /\ ~stop_event
    /\ LET utilization == get_system_utilization
       IN run' = [run EXCEPT
                ![t].current_max_workers =
                    calculate_optimal_workers(run[t].current_max_workers, utilization),
                ![t].current_batch_size =
                    AdaptBatchSize(run[t].current_batch_size, utilization),
                ![t].scaling_due = FALSE]
    /\ hist' = [hist EXCEPT !.cycles[t] = @ + 1]
    /\ UNCHANGED <<state, current_job_id, stop_event, error_message, data_is_dir,
                   batch_size, analyzer, nthreads, jobs, files, counters, single,
                   api_pc, workers, host, status_call>>

\* ProcessPoolExecutor (line 318): a worker process of the pool can take the
\* next submitted file; the pool has max_workers processes.
PoolCanStart(t) ==
    /\ run[t].pc \in {"submit", "drain", "complete"}
    /\ run[t].futures \ run[t].running # {}
    /\ Cardinality(run[t].running) < run[t].max_workers

\* A worker process of the pool takes the next submitted file.
PoolStart(t) ==
    /\ PoolCanStart(t)
    /\ run' = [run EXCEPT ![t].running = @ \cup {MinOf(run[t].futures \ run[t].running)}]
    /\ UNCHANGED <<state, current_job_id, stop_event, error_message, data_is_dir,
                   batch_size, analyzer, nthreads, jobs, files, counters, single,
                   api_pc, workers, host, status_call, hist>>

\* A submit loop that walks the batch from its end.
NextToClaim_Reversed(t) ==
    run[t].pending_files[Len(run[t].pending_files) - run[t].i + 1]

\* Line 394: the submit loop walks the batch in the order the Store
\* returned it.
NextToClaim(t) ==
    run[t].pending_files[run[t].i]

\* Lines 394-423: one iteration of the submit loop; after the last one the
\* per-batch counters are initialised.
SchedSubmit(t) ==
    /\ run[t].pc = "submit"
    /\ LET f == NextToClaim(t)
           last == run[t].i = Len(run[t].pending_files)
       IN /\ files' = MarkFileProcessing(f)
          /\ IF ShouldSubmit(t, f) /\ run[t].broken
             THEN \* executor.submit raises BrokenProcessPool
                  /\ RunException(t, "BrokenProcessPool")
                  /\ hist' = HistEnd(hist, t)
             ELSE /\ run' = [run EXCEPT
                        ![t].futures = IF ShouldSubmit(t, f) THEN @ \cup {f} ELSE @,
                        ![t].i = @ + 1,
                        ![t].pc = IF last THEN "drain" ELSE "submit",
                        ![t].consecutive_errors = IF last THEN 0 ELSE @,
                        ![t].stop_requested = IF last THEN FALSE ELSE @]
                  /\ hist' = IF ShouldSubmit(t, f)
                              THEN [hist EXCEPT !.claimed[t] = f]
                              ELSE hist
                  /\ UNCHANGED <<state, error_message>>
    /\ UNCHANGED <<current_job_id, stop_event, data_is_dir, batch_size,
                   analyzer, nthreads, jobs, single>>
    /\ UNCHANGED counters
    /\ UNCHANGED api_pc
    /\ UNCHANGED <<workers, host, status_call>>

\* Lines 502-504.
TripCheck(r) ==
    IF r.consecutive_errors >= MAX_CONSECUTIVE_ERRORS
    THEN [r EXCEPT !.stop_requested = TRUE]
    ELSE r

\* Lines 425-532: as_completed yields the future of file f, whose worker
\* returned outcome o.
SchedDrain(t, f, o) ==
    /\ run[t].pc = "drain"
    /\ f \in run[t].futures
    /\ OutcomeAllowed(f, o)
    /\ run[t].broken => o = "crash"
    /\ LET r0 == [run[t] EXCEPT !.stop_requested = @ \/ stop_event,
                                !.futures = @ \ {f},
                                !.running = @ \ {f}]
           h0 == hist
       IN CASE o = "ok" ->
                 \* lines 454-461: store_file_results
                 /\ files' = StoreFileResults(files, f)
                 /\ counters' = counters
                 /\ run' = [run EXCEPT ![t] = [r0 EXCEPT !.cur = f, !.pc = "complete"]]
                 /\ hist' = h0
            [] o = "fail" ->
                 \* lines 471-504
                 /\ files' = MarkFileError(files, f, AnalyzerMessage)
                 /\ counters' = CountError(counters, files, f, run[t].job_id)
                 /\ run' = [run EXCEPT ![t] = TripCheck(
                               [r0 EXCEPT !.error_count = @ + 1,
                                          !.consecutive_errors = @ + 1])]
                 /\ hist' = [HistFailure(h0, t, files) EXCEPT
                                !.progress[t] = ProgressEvent("file_error", f)]
            [] OTHER ->
                 \* lines 521-532: future.result raises (the worker process died)
                 /\ files' = files
                 /\ counters' = counters
                 /\ run' = [run EXCEPT ![t] =
                               [r0 EXCEPT !.error_count = @ + 1,
                                          !.consecutive_errors = @ + 1,
                                          !.broken = TRUE]]
                 /\ hist' = [HistFailure(h0, t, files) EXCEPT
                                !.progress[t] = ProgressEvent("file_error", 0)]
    /\ UNCHANGED <<state, current_job_id, stop_event, error_message, data_is_dir,
                   batch_size, analyzer, nthreads, jobs, single>>
    /\ UNCHANGED api_pc
    /\ UNCHANGED <<workers, host, status_call>>

\* Lines 462-466 and 502-504: mark_file_completed after the results are stored.
SchedComplete(t) ==
    /\ run[t].pc = "complete"
    /\ files' = MarkFileCompleted(files, run[t].cur)
    /\ counters' = CountCompleted(counters, files, run[t].cur, run[t].job_id)
    /\ run' = [run EXCEPT ![t] = TripCheck(
                  [run[t] EXCEPT !.processed_count = @ + 1,
                                 !.consecutive_errors = 0,
                                 !.cur = 0,
                                 !.pc = "drain"])]
    /\ hist' = [hist EXCEPT !.streak[t] = 0,
                            !.progress[t] = ProgressEvent("file_completed", run[t].cur)]
    /\ UNCHANGED <<state, current_job_id, stop_event, error_message, data_is_dir,
                   batch_size, analyzer, nthreads, jobs, single>>
    /\ UNCHANGED api_pc
    /\ UNCHANGED <<workers, host, status_call>>

\* Line 425: as_completed(timeout=2*WORKER_TIMEOUT_SECONDS) raises TimeoutError
\* out of the for statement while futures are unfinished; nothing in
\* process_files_parallel catches it.
SchedDrainTimeout(t) ==
    /\ run[t].pc = "drain"
    /\ run[t].futures # {}
    /\ ~run[t].broken
    /\ MayHang
    /\ RunException(t, "futures unfinished")
    /\ hist' = HistEnd(hist, t)
    /\ UNCHANGED <<current_job_id, stop_event, data_is_dir, batch_size,
                   analyzer, nthreads, jobs, files, single>>
    /\ UNCHANGED counters
    /\ UNCHANGED api_pc
    /\ UNCHANGED <<workers, host, status_call>>

\* Lines 534-555: the end of a batch.
SchedBatchEnd(t, mem_high) ==
    /\ run[t].pc = "drain"
    /\ run[t].futures = {}
    /\ IF run[t].stop_requested
       THEN run' = [run EXCEPT ![t].files_remaining = FALSE, ![t].pc = "ret"]
       ELSE run' = [run EXCEPT
                ![t].current_batch_size =
                    IF mem_high THEN Max(MIN_BATCH_SIZE, @ \div 2) ELSE @,
                ![t].scaling_due = TRUE,
                ![t].pc = "loop"]
    /\ hist' = [hist EXCEPT !.stop_phase[t] = IF @ = "batch" THEN "closed" ELSE @]
    /\ UNCHANGED <<state, current_job_id, stop_event, error_message, data_is_dir,
                   batch_size, analyzer, nthreads, jobs, files, single>>
    /\ UNCHANGED counters
    /\ UNCHANGED api_pc
    /\ UNCHANGED <<workers, host, status_call>>

\* Lines 567-581: the job status written on return, and the status returned.
SchedReturn(t) ==
    /\ run[t].pc = "ret"
    /\ LET s == IF ~run[t].files_remaining THEN "completed" ELSE "interrupted"
       IN /\ jobs' = UpdateJobStatus(jobs, run[t].job_id, s)
          /\ run' = [run EXCEPT ![t].status = s, ![t].pc = "final"]
    /\ UNCHANGED <<state, current_job_id, stop_event, error_message, data_is_dir,
                   batch_size, analyzer, nthreads, files, single, hist>>
    /\ UNCHANGED counters
    /\ UNCHANGED api_pc
    /\ UNCHANGED <<workers, host, status_call>>

\* _run_analysis: lines 358-372.
RunFinal(t) ==
    /\ run[t].pc = "final"
    /\ IF stop_event
       THEN /\ jobs' = UpdateJobStatus(jobs, current_job_id, "interrupted")
            /\ state' = "idle"
       ELSE IF run[t].status = "completed"
       THEN /\ jobs' = UpdateJobStatus(jobs, current_job_id, "completed")
            /\ state' = "completed"
       ELSE /\ jobs' = UpdateJobStatus(jobs, current_job_id, "interrupted")
            /\ state' = "idle"
    /\ run' = [run EXCEPT ![t] = DoneRun]
    /\ hist' = HistEnd(hist, t)
    /\ UNCHANGED <<current_job_id, stop_event, error_message, data_is_dir,
                   batch_size, analyzer, nthreads, files, single>>
    /\ UNCHANGED counters
    /\ UNCHANGED api_pc
    /\ UNCHANGED <<workers, host, status_call>>

(***************************************************************************)
(* The Scheduler when a Store call raises                                  *)
(***************************************************************************)
\* Line 378: get_pending_files raises. The call is outside every try of
\* process_files_parallel; the exception reaches _run_analysis.
SchedLoopTopRaises(t) ==
    /\ run[t].pc = "loop"
    /\ ~stop_event
    /\ RunException(t, "database error")
    /\ hist' = [HistEnd(hist, t) EXCEPT !.store_raised = @ \cup {"get_pending_files"}]
    /\ UNCHANGED <<current_job_id, stop_event, data_is_dir, batch_size,
                   analyzer, nthreads, jobs, files, counters, single, api_pc,
                   workers, host, status_call>>

\* Line 396: mark_file_processing raises, likewise outside every try.
SchedSubmitRaises(t) ==
    /\ run[t].pc = "submit"
    /\ RunException(t, "database error")
    /\ hist' = [HistEnd(hist, t) EXCEPT !.store_raised = @ \cup {"mark_file_processing"}]
    /\ UNCHANGED <<current_job_id, stop_event, data_is_dir, batch_size,
                   analyzer, nthreads, jobs, files, counters, single, api_pc,
                   workers, host, status_call>>

\* Lines 454-478 and 521-532: the worker of file f returned outcome o and the
\* first Store call made for it raises: store_file_results (o = "ok") or
\* mark_file_error (o = "fail"). The call is inside the try of the drain
\* loop; except Exception counts an error and the loop goes on.
SchedDrainRaises(t, f, o) ==
    /\ run[t].pc = "drain"
    /\ f \in run[t].futures
    /\ o \in {"ok", "fail"}
    /\ OutcomeAllowed(f, o)
    /\ ~run[t].broken
    /\ run' = [run EXCEPT ![t].stop_requested = @ \/ stop_event,
                          ![t].futures = @ \ {f},
                          ![t].running = @ \ {f},
                          ![t].error_count = @ + 1,
                          ![t].consecutive_errors = @ + 1]
    /\ hist' = [HistFailure(hist, t, files) EXCEPT
                   !.store_raised =
                       @ \cup {IF o = "ok" THEN "store_file_results" ELSE "mark_file_error"},
                   !.progress[t] = ProgressEvent("file_error", 0)]
    /\ UNCHANGED <<state, current_job_id, stop_event, error_message, data_is_dir,
                   batch_size, analyzer, nthreads, jobs, files, counters, single,
                   api_pc, workers, host, status_call>>

\* Lines 462 and 521-532: mark_file_completed raises after the results were
\* stored; except Exception counts an error and the loop goes on.
SchedCompleteRaises(t) ==
    /\ run[t].pc = "complete"
    /\ run' = [run EXCEPT ![t].error_count = @ + 1,
                          ![t].consecutive_errors = @ + 1,
                          ![t].cur = 0,
                          ![t].pc = "drain"]
    /\ hist' = [HistFailure(hist, t, files) EXCEPT
                   !.store_raised = @ \cup {"mark_file_completed"},
                   !.progress[t] = ProgressEvent("file_error", 0)]
    /\ UNCHANGED <<state, current_job_id, stop_event, error_message, data_is_dir,
                   batch_size, analyzer, nthreads, jobs, files, counters, single,
                   api_pc, workers, host, status_call>>

(***************************************************************************)
(* Recovery and the thread-pool worker                                     *)
(***************************************************************************)
\* A recovery that puts every row of the job back to pending.
InterruptProcessing_ResetAll(j) ==
    /\ jobs[j] = "running"
    /\ files' = [f \in FileIds |->
                    IF files[f].job_id = j THEN [files[f] EXCEPT !.status = "pending"]
                    ELSE files[f]]
    /\ jobs' = UpdateJobStatus(jobs, j, "interrupted")
    /\ UNCHANGED <<state, current_job_id, stop_event, error_message, data_is_dir,
                   batch_size, analyzer, nthreads, run, single, hist>>
    /\ UNCHANGED counters
    /\ UNCHANGED api_pc
    /\ UNCHANGED <<workers, host, status_call>>

\* interrupt_processing: lines 882-910.
InterruptProcessing(j) ==
    /\ jobs[j] = "running"
    /\ files' = ResetStalledFiles(j)
    /\ jobs' = UpdateJobStatus(jobs, j, "interrupted")
    /\ UNCHANGED <<state, current_job_id, stop_event, error_message, data_is_dir,
                   batch_size, analyzer, nthreads, run, single, hist>>
    /\ UNCHANGED counters
    /\ UNCHANGED api_pc
    /\ UNCHANGED <<workers, host, status_call>>

\* process_single_file: lines 717-724, the claim.
SingleClaim(f) ==
    /\ single.pc = "idle"
    /\ single.calls < MaxSingleCalls
    /\ files' = MarkFileProcessing(f)
    /\ single' = IF CanMarkProcessing(f)
                 THEN [pc |-> "run", file_id |-> f, calls |-> single.calls + 1]
                 ELSE [single EXCEPT !.calls = @ + 1]
    /\ UNCHANGED <<state, current_job_id, stop_event, error_message, data_is_dir,
                   batch_size, analyzer, nthreads, run, jobs, hist>>
    /\ UNCHANGED counters
    /\ UNCHANGED api_pc
    /\ UNCHANGED <<workers, host, status_call>>

\* process_single_file: lines 726-774, the analysis and its Store updates.
SingleFinish(o) ==
    /\ single.pc = "run"
    /\ o \in {"ok", "fail"}
    /\ OutcomeAllowed(single.file_id, o)
    /\ files' = IF o = "ok"
                THEN MarkFileCompleted(StoreFileResults(files, single.file_id), single.file_id)
                ELSE MarkFileError(files, single.file_id, AnalyzerMessage)
    /\ counters' = IF o = "ok"
                   THEN CountCompleted(counters, files, single.file_id,
                                       files[single.file_id].job_id)
                   ELSE CountError(counters, files, single.file_id,
                                   files[single.file_id].job_id)
    /\ single' = [single EXCEPT !.pc = "idle", !.file_id = 0]
    /\ UNCHANGED <<state, current_job_id, stop_event, error_message, data_is_dir,
                   batch_size, analyzer, nthreads, run, jobs, hist>>
    /\ UNCHANGED api_pc
    /\ UNCHANGED <<workers, host, status_call>>

(***************************************************************************)
(* Specifications                                                          *)
(***************************************************************************)
Outcomes == {"ok", "fail", "crash"}

InitService ==
    /\ state = "idle"
    /\ current_job_id = 0
    /\ stop_event = FALSE
    /\ error_message = ""
    /\ nthreads = 0
    /\ run = [t \in Threads |-> NoRun]
    /\ jobs = [j \in Threads |-> "absent"]
    /\ files = <<>>
    /\ counters = [j \in Threads |-> NoCounters]
    /\ single = NoSingle
    /\ api_pc = "idle"
    /\ host = NoHost
    /\ status_call = NoStatusCall
    /\ hist = NoHist

\* Spec: the Service under concurrent Start, Stop and Clear calls, up to
\* MaxRuns run threads, recovery; every analysis succeeds in time.
Init ==
    /\ InitService
    /\ data_is_dir \in BOOLEAN
    /\ batch_size \in BatchSizes
    /\ analyzer = "ok_all"
    /\ workers \in WorkerCounts

Next ==
    \/ nthreads < MaxRuns /\ StartAnalysis
    \/ StopAnalysis
    \/ ClearResults
    \/ \E t \in Threads : RunBegin(t)
    \/ \E t \in Threads, k \in 0..MaxScan : Len(files) + k <= MaxFiles /\ RunScan(t, k)
    \/ \E t \in Threads : RunCheckStop(t)
    \/ \E t \in Threads : RunEnterProcessing(t)
    \/ \E t \in Threads : SchedLoopTop(t)
    \/ \E t \in Threads : SchedSubmit(t)
    \/ \E t \in Threads, f \in FileIds : SchedDrain(t, f, "ok")
    \/ \E t \in Threads : SchedComplete(t)
    \/ \E t \in Threads : SchedBatchEnd(t, FALSE)
    \/ \E t \in Threads : SchedReturn(t)
    \/ \E t \in Threads : RunFinal(t)
    \/ \E j \in Threads : InterruptProcessing(j)

Spec == Init /\ [][Next]_vars

\* SpecRun: one run thread against every behaviour of the analyzer, the
\* worker pool and the host: failures, dead workers, unfinished futures,
\* memory pressure, a concurrent process_single_file worker, recovery.
InitRun ==
    /\ InitService
    /\ data_is_dir = TRUE
    /\ batch_size \in BatchSizes
    /\ analyzer \in {"any", "slow", "hang"}
    /\ workers \in WorkerCounts

NextRun ==
    \/ nthreads < 1 /\ StartAnalysis
    \/ StopAnalysis
    \/ ClearResults
    \/ RunBegin(1)
    \/ \E k \in 0..MaxRunScan : RunScan(1, k)
    \/ RunCheckStop(1)
    \/ RunEnterProcessing(1)
    \/ SchedLoopTop(1)
    \/ SchedSubmit(1)
    \/ \E f \in FileIds, o \in Outcomes : SchedDrain(1, f, o)
    \/ SchedComplete(1)
    \/ SchedDrainTimeout(1)
    \/ \E mem_high \in BOOLEAN : SchedBatchEnd(1, mem_high)
    \/ SchedReturn(1)
    \/ RunFinal(1)
    \/ \E j \in Threads : InterruptProcessing(j)
    \/ \E f \in FileIds : SingleClaim(f)
    \/ \E o \in Outcomes : SingleFinish(o)

SpecRun == InitRun /\ [][NextRun]_vars

\* SpecTerm: one run whose workers all return a result (ok or failed) and
\* whose Store calls all succeed, with Stop, recovery and a concurrent
\* process_single_file worker. The Scheduler runs in a thread of its own
\* and every worker returns: the steps of the Scheduler are taken when they
\* stay enabled.
InitTerm ==
    /\ InitService
    /\ data_is_dir = TRUE
    /\ batch_size \in BatchSizes
    /\ analyzer = "any"
    /\ workers \in WorkerCounts

SchedulerStep(t) ==
    \/ SchedLoopTop(t)
    \/ SchedSubmit(t)
    \/ \E f \in FileIds, o \in {"ok", "fail"} : SchedDrain(t, f, o)
    \/ SchedComplete(t)
    \/ \E mem_high \in BOOLEAN : SchedBatchEnd(t, mem_high)
    \/ SchedReturn(t)

NextTerm ==
    \/ nthreads < 1 /\ StartAnalysis
    \/ StopAnalysis
    \/ RunBegin(1)
    \/ \E k \in 0..MaxRunScan : RunScan(1, k)
    \/ RunCheckStop(1)
    \/ RunEnterProcessing(1)
    \/ SchedulerStep(1)
    \/ RunFinal(1)
    \/ \E j \in Threads : InterruptProcessing(j)
    \/ \E f \in FileIds : SingleClaim(f)
    \/ \E o \in {"ok", "fail"} : SingleFinish(o)

SpecTerm == InitTerm /\ [][NextTerm]_vars /\ WF_vars(SchedulerStep(1))

\* SpecCB: one run over a large tree with a deterministic failing analyzer
\* (fail_all: every file fails; burst: files 11..60 fail), workers finishing
\* in submission order.
CBBatchSizes == {20, 50, 60}
CBScanSizes == {51, 61}

InitCB ==
    /\ InitService
    /\ data_is_dir = TRUE
    /\ batch_size \in CBBatchSizes
    /\ analyzer \in {"fail_all", "burst"}
    /\ workers \in WorkerCounts

NextCB ==
    \/ nthreads < 1 /\ StartAnalysis
    \/ RunBegin(1)
    \/ \E k \in CBScanSizes : RunScan(1, k)
    \/ RunCheckStop(1)
    \/ RunEnterProcessing(1)
    \/ SchedLoopTop(1)
    \/ SchedSubmit(1)
    \/ \E o \in Outcomes : run[1].futures # {} /\ SchedDrain(1, MinOf(run[1].futures), o)
    \/ SchedComplete(1)
    \/ SchedBatchEnd(1, FALSE)
    \/ SchedReturn(1)
    \/ RunFinal(1)

SpecCB == InitCB /\ [][NextCB]_vars

\* SpecApi: one run under Start, Stop and Clear calls, the rejected ones
\* included; every analysis succeeds in time.
InitApi ==
    /\ InitService
    /\ data_is_dir \in BOOLEAN
    /\ batch_size \in BatchSizes
    /\ analyzer = "ok_all"
    /\ workers \in WorkerCounts

NextApi ==
    \/ nthreads < 1 /\ StartAnalysis
    \/ StartAnalysisRejected
    \/ StopAnalysisGuard
    \/ StopAnalysisWrite
    \/ StopAnalysisRejected
    \/ ClearResults
    \/ ClearResultsRejected
    \/ RunBegin(1)
    \/ \E k \in 0..MaxScan : RunScan(1, k)
    \/ RunCheckStop(1)
    \/ RunEnterProcessing(1)
    \/ SchedLoopTop(1)
    \/ SchedSubmit(1)
    \/ \E f \in FileIds : SchedDrain(1, f, "ok")
    \/ SchedComplete(1)
    \/ SchedBatchEnd(1, FALSE)
    \/ SchedReturn(1)
    \/ RunFinal(1)

SpecApi == InitApi /\ [][NextApi]_vars

\* SpecStatus: SpecApi with a get_status call running beside the other
\* threads.
NextStatus ==
    \/ NextApi
    \/ GetStatusReadState
    \/ GetStatusReadIsRunning
    \/ GetStatusReadCanStart
    \/ GetStatusReadCanStop
    \/ GetStatusReturn

SpecStatus == InitApi /\ [][NextStatus]_vars

\* SpecScale: one run over a tree of 1 or 41 files on a host whose load
\* sampler returns one reading throughout; every analysis succeeds; the pool
\* takes a submitted file as soon as a worker process is free and the
\* workers finish in the order they started.
CpuReadings == {59, 60, 81}
MemoryReadings == {79, 80, 91}
LoadReadings == {7, 8, 16, 20, 21, 25}
ScaleWorkers == {8, 28, 64}
ScaleBatchSizes == {20, 45, 50}
ScaleScanSizes == {1, 41}

InitScale ==
    /\ state = "idle"
    /\ current_job_id = 0
    /\ stop_event = FALSE
    /\ error_message = ""
    /\ nthreads = 0
    /\ run = [t \in Threads |-> NoRun]
    /\ jobs = [j \in Threads |-> "absent"]
    /\ files = <<>>
    /\ counters = [j \in Threads |-> NoCounters]
    /\ single = NoSingle
    /\ api_pc = "idle"
    /\ status_call = NoStatusCall
    /\ hist = NoHist
    /\ data_is_dir = TRUE
    /\ analyzer = "ok_all"
    /\ batch_size \in ScaleBatchSizes
    /\ workers \in ScaleWorkers
    /\ \E c \in CpuReadings, m \in MemoryReadings, l \in LoadReadings :
          host = [NoHost EXCEPT !.cpu_percent = c, !.memory_percent = m,
                                !.load_factor = l]

NextScale ==
    \/ nthreads < 1 /\ StartAnalysis
    \/ RunBegin(1)
    \/ \E k \in ScaleScanSizes : RunScan(1, k)
    \/ RunCheckStop(1)
    \/ RunEnterProcessing(1)
    \/ SchedAdapt(1)
    \/ SchedLoopTop(1)
    \/ ~PoolCanStart(1) /\ SchedSubmit(1)
    \/ PoolStart(1)
    \/ /\ ~PoolCanStart(1)
       /\ run[1].running # {}
       /\ SchedDrain(1, MinOf(run[1].running), "ok")
    \/ SchedComplete(1)
    \/ SchedBatchEnd(1, host.memory_percent > 90)
    \/ SchedReturn(1)
    \/ RunFinal(1)

SpecScale == InitScale /\ [][NextScale]_vars

\* SpecOverload: the run of SpecScale on hosts of several sizes, the Service
\* constructed with the worker count the initial sizing gives for the host
\* (2, 6, 9, 12 and 24 workers).
OverloadCpuCounts == {2, 8, 16, 64}
OverloadMemoryGBs == {16, 64}
OverloadLoadReadings == {7, 16, 21}

InitOverload ==
    /\ state = "idle"
    /\ current_job_id = 0
    /\ stop_event = FALSE
    /\ error_message = ""
    /\ nthreads = 0
    /\ run = [t \in Threads |-> NoRun]
    /\ jobs = [j \in Threads |-> "absent"]
    /\ files = <<>>
    /\ counters = [j \in Threads |-> NoCounters]
    /\ single = NoSingle
    /\ api_pc = "idle"
    /\ status_call = NoStatusCall
    /\ hist = NoHist
    /\ data_is_dir = TRUE
    /\ analyzer = "ok_all"
    /\ batch_size = MIN_BATCH_SIZE
    /\ \E C \in OverloadCpuCounts, M \in OverloadMemoryGBs,
          c \in CpuReadings, m \in MemoryReadings, l \in OverloadLoadReadings :
          host = [NoHost EXCEPT !.cpu_count = C, !.memory_gb = M,
                                !.cpu_percent = c, !.memory_percent = m,
                                !.load_factor = l]
    /\ workers = calculate_initial_workers(host)

SpecOverload == InitOverload /\ [][NextScale]_vars

\* SpecSizing: the construction of the Service on hosts of every CPU count
\* and memory size of the sets below, and on hosts where psutil raises.
CpuCounts == {1, 2, 4, 7, 8, 16, 31, 32, 64, 95, 96, 128}
MemoryGBs == {1, 4, 16, 32, 64, 90, 128, 256}

InitSizing ==
    /\ state = "uninitialized"
    /\ current_job_id = 0
    /\ stop_event = FALSE
    /\ error_message = ""
    /\ nthreads = 0
    /\ run = [t \in Threads |-> NoRun]
    /\ jobs = [j \in Threads |-> "absent"]
    /\ files = <<>>
    /\ counters = [j \in Threads |-> NoCounters]
    /\ single = NoSingle
    /\ api_pc = "idle"
    /\ status_call = NoStatusCall
    /\ hist = NoHist
    /\ data_is_dir = TRUE
    /\ analyzer = "ok_all"
    /\ batch_size = MAX_BATCH_SIZE
    /\ workers = 0
    /\ \E c \in CpuCounts, m \in MemoryGBs, r \in BOOLEAN :
          host = [NoHost EXCEPT !.cpu_count = c, !.memory_gb = m, !.raises = r]

NextSizing == ServiceInit

SpecSizing == InitSizing /\ [][NextSizing]_vars

\* SpecStore: one run in which any Store call of the Scheduler may raise;
\* the analyzer succeeds or fails on each file.
InitStore ==
    /\ InitService
    /\ data_is_dir = TRUE
    /\ batch_size \in BatchSizes
    /\ analyzer = "any"
    /\ workers \in WorkerCounts

NextStore ==
    \/ nthreads < 1 /\ StartAnalysis
    \/ RunBegin(1)
    \/ \E k \in 0..MaxRunScan : RunScan(1, k)
    \/ RunCheckStop(1)
    \/ RunEnterProcessing(1)
    \/ SchedLoopTop(1)
    \/ SchedLoopTopRaises(1)
    \/ SchedSubmit(1)
    \/ SchedSubmitRaises(1)
    \/ \E f \in FileIds, o \in {"ok", "fail"} : SchedDrain(1, f, o)
    \/ \E f \in FileIds, o \in {"ok", "fail"} : SchedDrainRaises(1, f, o)
    \/ SchedComplete(1)
    \/ SchedCompleteRaises(1)
    \/ SchedBatchEnd(1, FALSE)
    \/ SchedReturn(1)
    \/ RunFinal(1)

SpecStore == InitStore /\ [][NextStore]_vars

(***************************************************************************)
(* Properties                                                              *)
(***************************************************************************)
\* File f is handed to the pool of thread t in this step.
Submitted(t, f) == f \in run'[t].futures /\ f \notin run[t].futures

\* No run thread and no thread-pool worker is at work.
Quiescent == (\A t \in Threads : ~Active(t)) /\ single.pc = "idle"

\* C1 (Spec): claim uniqueness. A caller hands a file to a worker only in the
\* step in which its own mark_file_processing moved the file from pending to
\* processing; a caller that finds the file no longer pending skips it. So of
\* the callers racing for a pending file exactly one gets true and submits.
C1_ClaimUniqueness ==
    [][/\ \A t \in Threads, f \in FileIds :
             Submitted(t, f) =>
                 /\ files[f].status = "pending"
                 /\ files'[f].status = "processing"
                 /\ \A u \in Threads \ {t} : ~Submitted(u, f)
       /\ (single.pc = "idle" /\ single'.pc = "run") =>
             /\ files[single'.file_id].status = "pending"
             /\ files'[single'.file_id].status = "processing"]_vars

\* Two Schedulers drew the same file into their batches; one claimed it and
\* holds it in flight, the other has tried it in its submit loop and skipped it.
C1_Witness ==
    \E t \in Threads, u \in Threads, f \in FileIds :
        /\ t # u
        /\ f \in run[t].futures
        /\ files[f].status = "processing"
        /\ run[u].pc = "submit"
        /\ f \notin run[u].futures
        /\ \E k \in 1..(run[u].i - 1) : run[u].pending_files[k] = f

\* C2 (Spec): graceful stop. Once Stop has raised the stop signal, a run
\* thread that was active claims no file after the batch it was draining.
C2_GracefulStop ==
    [][\A t \in Threads, f \in FileIds :
          Submitted(t, f) => hist.stop_phase[t] # "closed"]_vars

\* C3 (Spec): at most one run routine is active at any moment.
C3_OneActiveRun == Cardinality({t \in Threads : Active(t)}) <= 1

\* C4 (Spec): Start spawns a run routine only when the Service state is idle
\* and the data path is a directory.
C4_StartGuard ==
    [][nthreads' > nthreads => (state = "idle" /\ data_is_dir)]_vars

\* C5 (SpecCB): with an analyzer failing on every file, the Scheduler returns
\* after exactly 50 errors, with status interrupted, the job interrupted.
C5_CircuitBreaker ==
    \A t \in Threads :
        (analyzer = "fail_all" /\ run[t].pc = "final") =>
            /\ run[t].error_count = MAX_CONSECUTIVE_ERRORS
            /\ run[t].status = "interrupted"
            /\ jobs[run[t].job_id] = "interrupted"

\* C6 (SpecCB): once 50 files in a row have failed, also when the batch size
\* is below 50 and the failures span several batches, every file not claimed
\* by then stays pending and the Scheduler returns interrupted.
C6_ErrorsAcrossBatches ==
    \A t \in Threads :
        (hist.tripped[t] /\ batch_size < MAX_CONSECUTIVE_ERRORS) =>
            /\ \A f \in hist.pending_at_trip[t] : files[f].status = "pending"
            /\ run[t].pc = "final" => run[t].status = "interrupted"

\* C7 (SpecCB): after a circuit-break trip without Stop the run routine ends
\* with the Service idle, the job interrupted, and an error message set.
C7_TripSurfaced ==
    \A t \in Threads :
        (hist.tripped[t] /\ run[t].pc = "done") =>
            /\ state = "idle"
            /\ jobs[t] = "interrupted"
            /\ error_message # ""

\* C8 (SpecRun): timeout boundary. When every worker exceeds the 180 s
\* deadline (it returns after 200 s, or not at all), no file the Scheduler
\* claimed is recorded completed, every error row carries the timeout
\* message, the run is not aborted, and once the batches are drained no file of
\* the job is left in processing.
C8_TimeoutBoundary ==
    (analyzer \in {"slow", "hang"} /\ single.calls = 0) =>
        /\ state # "error"
        /\ \A f \in FileIds :
              /\ files[f].status # "completed"
              /\ files[f].status = "error" => files[f].error_message = TimeoutMessage

C10_OneWayTransitions ==
    [][\A f \in FileIds :
          LET a == files[f].status
              b == files'[f].status
          IN a # b =>
                \/ a = "pending" /\ b = "processing"
                \/ a = "processing" /\ b \in {"completed", "error"}
                \/ a = "processing" /\ b = "pending" /\ \E j \in Threads : InterruptProcessing(j)
                \/ b = "deleted" /\ ClearResults]_vars

\* A file in flight was reset to pending by recovery while another file of the
\* run went through processing to completed and a third to error.
C10_Witness ==
    /\ \E f \in FileIds : files[f].status = "pending" /\ f \in run[1].futures
    /\ \E f \in FileIds : files[f].status = "completed"
    /\ \E f \in FileIds : files[f].status = "error"

\* A run routine working on job j is active before and after the step.
InRun(j) ==
    \E t \in Threads :
        /\ run[t].job_id = j /\ Active(t)
        /\ run'[t].job_id = j /\ run'[t].pc \notin {"none", "done"}

\* C11 (Spec): job counters. processed_files + error_files <= total_files for
\* every job at all times, and while a run of the job is active the completed
\* and error counts of GetFileStatistics do not decrease from one read to the
\* next.
C11_JobCounters ==
    [][\A j \in Threads :
          /\ counters'[j].processed_files + counters'[j].error_files
                 <= counters'[j].total_files
          /\ InRun(j) =>
                /\ GetFileStatistics(j, "completed")' >= GetFileStatistics(j, "completed")
                /\ GetFileStatistics(j, "error")' >= GetFileStatistics(j, "error")]_vars

\* C12 (Spec): entity rows are written atomically with the completed
\* transition: in every state a file that has entity rows is completed.
C12_EntitiesWithCompleted ==
    \A f \in FileIds : files[f].entity_sets >= 1 => files[f].status = "completed"

\* C13 (Spec): idempotent re-run. A file that was reset to pending by
\* recovery and processed again ends with exactly one set of entity rows: every
\* completed file has one set.
C13_IdempotentRerun ==
    \A f \in FileIds : files[f].status = "completed" => files[f].entity_sets = 1

\* C14 (SpecRun): reset race. When the Scheduler records the completion of a
\* file that recovery has put back to pending, the update affects no row and
\* the outcome is treated as an error: the file is not counted as processed
\* and the consecutive-error counter is not reset.
C14_ResetRace ==
    [][\A t \in Threads :
          (/\ run[t].pc = "complete"
           /\ run'[t].pc = "drain"
           /\ files[run[t].cur].status = "pending") =>
              /\ files'[run[t].cur].status = "pending"
              /\ run'[t].processed_count = run[t].processed_count
              /\ run'[t].consecutive_errors >= run[t].consecutive_errors]_vars

\* C15 (SpecCB): run outcome mapping. When the Scheduler has returned and the
\* run routine writes the outcome: (a) with the stop signal raised the job
\* becomes interrupted and the Service idle, and if files were pending beyond
\* the batch in progress when Stop was called, some file is still pending;
\* (b) otherwise, when no file of the job is pending, the job becomes completed
\* and the Service completed; (c) otherwise the job becomes interrupted and
\* the Service idle.
C15_RunOutcome ==
    [][\A t \in Threads :
          (run[t].pc = "final" /\ run'[t].pc = "done") =>
              LET j == run[t].job_id
              IN IF stop_event
                 THEN /\ jobs'[j] = "interrupted" /\ state' = "idle"
                      /\ hist.beyond[t] => PendingSet(j) # {}
                 ELSE IF PendingSet(j) = {}
                 THEN jobs'[j] = "completed" /\ state' = "completed"
                 ELSE jobs'[j] = "interrupted" /\ state' = "idle"]_vars

\* C16 (Spec): restart after interrupt. Once a run was interrupted with files
\* of its job left pending and the run started after it has ended completed,
\* none of the files of the interrupted job is pending.
C16_RestartAfterInterrupt ==
    (/\ \A t \in Threads : ~Active(t)
     /\ nthreads = 2
     /\ jobs[1] = "interrupted"
     /\ jobs[2] = "completed"
     /\ state = "completed") =>
        PendingSet(1) = {}

C18_ClearGuard ==
    [][ClearResults => \A t \in Threads : ~Active(t)]_vars

\* C19 (SpecApi): stopping is transient. Whenever the Service state is stopping
\* a run routine is active; the Service is never in stopping with no run
\* routine left to take it out of that state.
C19_StoppingTransient ==
    state = "stopping" => \E t \in Threads : Active(t)

\* C20 (SpecRun): unhandled run-routine exception. When a step of the run
\* routine raises, the Service state becomes error, the message is exposed,
\* and the persisted status of the current job becomes error.
C20_RunException ==
    [][\A t \in Threads :
          (Active(t) /\ run'[t].pc = "done" /\ state' = "error") =>
              /\ error_message' # ""
              /\ current_job_id \in DOMAIN jobs => jobs'[current_job_id] = "error"]_vars

\* C21 (SpecStore): a step in which a Store call of the Scheduler raises ends
\* the run routine with the Service in state error, and leaves every file
\* that was in processing in processing.
C21_StoreFailureSurfaced ==
    [][hist'.store_raised # hist.store_raised =>
          /\ state' = "error"
          /\ \A t \in Threads : ~Active(t)'
          /\ \A f \in FileIds :
                files[f].status = "processing" => files'[f].status = "processing"]_vars

\* C22 (Spec): while no file has been registered and no Stop was issued,
\* the Service state moves only from idle (or a finished run's completed) to
\* scanning when a run routine begins, from scanning to completed, and to
\* idle by Clear; it is never processing, no run thread is inside the
\* Scheduler, every job counts 0 files, and a run routine that has read the
\* pending count ends with the state completed.
C22_EmptyTree ==
    [][(Len(files') = 0 /\ ~hist'.stop_issued) =>
          /\ state' # "processing"
          /\ \A t \in Threads :
                run'[t].pc \in {"none", "spawned", "scan", "scanned", "stats", "done"}
          /\ \A j \in Threads : counters'[j].total_files = 0
          /\ state' # state =>
                \/ state' = "scanning" /\ state \in {"idle", "completed"}
                     /\ \E t \in Threads : run[t].pc = "spawned" /\ run'[t].pc = "scan"
                \/ state = "scanning" /\ state' = "completed"
                \/ state' = "idle" /\ current_job_id' = 0 /\ ~is_running
          /\ \A t \in Threads :
                (run[t].pc = "stats" /\ run'[t].pc = "done") => state' = "completed"]_vars

\* An empty tree was scanned, no Stop was issued, and the run has ended in
\* state completed without a file.
C22_Witness ==
    /\ files = <<>>
    /\ nthreads = 1
    /\ run[1].pc = "done"
    /\ state = "completed"
    /\ ~hist.stop_issued
    /\ jobs[1] = "pending"
    /\ counters[1].total_files = 0

\* C23 (Spec): a run routine during whose discovery pass the stop signal was
\* raised goes no further than the stop test after the pass, and ends with the
\* Service state idle.
C23_StopDuringScan ==
    [][\A t \in Threads :
          hist.stop_in_scan[t] =>
              /\ run'[t].pc \in {"scan", "scanned", "done"}
              /\ run'[t].pc = "done" /\ run[t].pc # "done" => state' = "idle"]_vars

\* C24 (SpecStatus): in a complete Status result, is_running and can_stop are
\* true iff the reported state is scanning or processing, and can_start is
\* true iff the reported state is idle.
C24_StatusSnapshot ==
    status_call.pc = "done" =>
        /\ status_call.is_running = (status_call.state \in {"scanning", "processing"})
        /\ status_call.can_stop = (status_call.state \in {"scanning", "processing"})
        /\ status_call.can_start = (status_call.state = "idle")

\* C25 (SpecScale): on a host whose load factor is 2.5 at every adaptation,
\* a Scheduler started with at least 8 workers has the worker target 8 once
\* it has made ceil((initial - 8) / 20) adaptations, and at every later one.
C25_AdaptationBounds ==
    \A t \in Threads :
        (/\ host.load_factor = 25
         /\ run[t].max_workers >= 8
         /\ hist.cycles[t] >=
                (run[t].max_workers - 8 + (WORKER_EMERGENCY_REDUCTION - 1))
                    \div WORKER_EMERGENCY_REDUCTION)
        => run[t].current_max_workers = 8

\* C26 (SpecScale): the worker target written by an adaptation is the first
\* matching row of the table: load factor > 2.0: max(8, w - max(20, w/3));
\* > 1.5: max(8, w - max(20, w/5)); cpu < 60 and memory < 80 and load factor
\* < 0.8: w + 10; cpu > 80 or memory > 90: max(8, w - 10); otherwise w.
C26_WorkerControlLaw ==
    [][\A t \in Threads :
          hist'.cycles[t] = hist.cycles[t] + 1 =>
              LET w == run[t].current_max_workers
                  cpu == host.cpu_percent
                  memory == host.memory_percent
                  load_factor == host.load_factor
              IN run'[t].current_max_workers =
                    IF load_factor > 20 THEN Max(8, w - Max(20, w \div 3))
                    ELSE IF load_factor > 15 THEN Max(8, w - Max(20, w \div 5))
                    ELSE IF cpu < 60 /\ memory < 80 /\ load_factor < 8 THEN w + 10
                    ELSE IF cpu > 80 \/ memory > 90 THEN Max(8, w - 10)
                    ELSE w]_vars

\* C27 (SpecScale): the batch size written by an adaptation is the first
\* matching row of the table: load factor > 2.0: 20; load factor in
\* (1.5, 2.0]: unchanged; cpu < 60 and memory < 80 and load factor < 0.8:
\* min(50, b + 10); cpu > 80 or memory > 90: max(20, b - 10); otherwise
\* unchanged. No other step of the Scheduler changes the batch size.
C27_BatchControlLaw ==
    [][\A t \in Threads :
          LET b == run[t].current_batch_size
              cpu == host.cpu_percent
              memory == host.memory_percent
              load_factor == host.load_factor
              InScheduler(pc) == pc \in {"loop", "submit", "drain", "complete", "ret"}
          IN IF hist'.cycles[t] = hist.cycles[t] + 1
             THEN run'[t].current_batch_size =
                    IF load_factor > 20 THEN 20
                    ELSE IF load_factor > 15 THEN b
                    ELSE IF cpu < 60 /\ memory < 80 /\ load_factor < 8 THEN Min(50, b + 10)
                    ELSE IF cpu > 80 \/ memory > 90 THEN Max(20, b - 10)
                    ELSE b
             ELSE (InScheduler(run[t].pc) /\ InScheduler(run'[t].pc)) =>
                    run'[t].current_batch_size = b]_vars

\* C28 (SpecScale): once an adaptation has written a worker target, the
\* files being analyzed by the pool at one time are never more than the
\* target.
C28_TargetTakesEffect ==
    \A t \in Threads :
        hist.cycles[t] >= 1 =>
            Cardinality(run[t].running) <= run[t].current_max_workers

\* C29 (SpecSizing): the worker count of a Service constructed on a host of
\* C logical CPUs and M GB is min(floor(0.5C), floor(0.7M), 64) when C >= 96;
\* min(24, floor(0.75C), floor(0.6M)) when 32 <= C < 96;
\* min(max(4, floor(0.8C)), floor(0.6M)) when 8 <= C < 32;
\* min(max(2, floor(0.9C)), floor(0.6M)) when C < 8; 16 when sampling raises.
C29_InitialSizing ==
    state = "idle" =>
        LET C == host.cpu_count
            M == host.memory_gb
        IN workers =
              IF host.raises THEN 16
              ELSE IF C >= 96
              THEN Min(Min((5 * C) \div 10, (7 * M) \div 10), 64)
              ELSE IF C >= 32
              THEN Min(Min(24, (75 * C) \div 100), (6 * M) \div 10)
              ELSE IF C >= 8
              THEN Min(Max(4, (8 * C) \div 10), (6 * M) \div 10)
              ELSE Min(Max(2, (9 * C) \div 10), (6 * M) \div 10)

\* C30 (SpecRun): when the Scheduler counts an error for a file it had
\* submitted and that is in processing, the step moves the file to error
\* with a message and adds one to the consecutive-error counter.
C30_WorkerException ==
    [][\A t \in Threads : \A f \in FileIds :
          (/\ f \in run[t].futures
           /\ f \notin run'[t].futures
           /\ run'[t].error_count = run[t].error_count + 1
           /\ files[f].status = "processing") =>
              /\ files'[f].status = "error"
              /\ files'[f].error_message # ""
              /\ run'[t].consecutive_errors = run[t].consecutive_errors + 1]_vars

\* C31 (SpecRun): when the Scheduler delivers a progress event for a file,
\* the file's status in the Store is completed for a file_completed event
\* and error for a file_error event.
C31_ProgressOrdering ==
    [][\A t \in Threads :
          (hist'.progress[t] # hist.progress[t] /\ hist'.progress[t].file_id # 0) =>
              LET e == hist'.progress[t]
              IN files'[e.file_id].status =
                    (IF e.type = "file_completed" THEN "completed" ELSE "error")]_vars

\* The Scheduler of run thread t claims file f in this step.
Claims(t, f) ==
    /\ files[f].status = "pending"
    /\ files'[f].status = "processing"
    /\ f \notin run[t].futures
    /\ f \in run'[t].futures

\* C32 (SpecScale): in a Scheduler run without recovery reset every batch
\* is the lowest-numbered pending files of the job, at most the current
\* batch size of them, in ascending order, and every file the Scheduler
\* claims has a larger id than every file it claimed before, in the same
\* batch or in an earlier one.
C32_FifoClaiming ==
    [][\A t \in Threads :
          /\ (run[t].pc = "loop" /\ run'[t].pc = "submit") =>
                LET batch == run'[t].pending_files
                    ids == {batch[k] : k \in 1..Len(batch)}
                IN /\ Len(batch) <= run[t].current_batch_size
                   /\ \A k \in 1..(Len(batch) - 1) : batch[k] < batch[k + 1]
                   /\ ids \subseteq PendingSet(run[t].job_id)
                   /\ \A g \in PendingSet(run[t].job_id) \ ids :
                         /\ Len(batch) = run[t].current_batch_size
                         /\ \A f \in ids : f < g
          /\ \A f \in 1..Len(files) :
                Claims(t, f) => f > hist.claimed[t]]_vars

\* A file of the third batch has been claimed.
C32_Witness ==
    /\ run[1].current_batch_size = 20
    /\ hist.claimed[1] = 41
    /\ Cardinality(run[1].futures) = 1

\* The Scheduler of run thread t is inside process_files_parallel.
InScheduler(t) == run[t].pc \in {"loop", "submit", "drain", "complete", "ret"}

C34_CompletedJobHasNoOpenFile ==
    \A j \in DOMAIN jobs :
        jobs[j] = "completed" =>
            \A f \in FileIds :
                files[f].job_id = j => files[f].status \notin {"pending", "processing"}

\* C35 (Spec): a run routine that was scanning or inside the Scheduler when
\* Stop returned success takes no new batch afterwards, whatever Start
\* calls follow.
C35_StopNeverLost ==
    [][\A t \in Threads :
          (run[t].pc = "loop" /\ run'[t].pc = "submit") =>
              (hist.stop_phase[t] = "no" /\ ~hist.stop_in_scan[t])]_vars

\* The files that go from processing to status s in this step.
Moved(s) ==
    {f \in FileIds : files[f].status = "processing" /\ files'[f].status = s}

\* C36 (SpecRun): every step of the Scheduler's drain loop adds to
\* processed_count the number of files it moves from processing to
\* completed and to error_count the number it moves from processing to
\* error, so the statistics returned agree with the Store.
C36_StatisticsAgree ==
    [][\A t \in Threads :
          (/\ run[t].pc \in {"drain", "complete"}
           /\ run'[t].pc \in {"drain", "complete"}
           /\ run'[t] # run[t]) =>
              /\ run'[t].processed_count - run[t].processed_count =
                     Cardinality(Moved("completed"))
              /\ run'[t].error_count - run[t].error_count =
                     Cardinality(Moved("error"))]_vars

\* The host is overloaded for the control law.
Overloaded ==
    \/ host.load_factor > MAX_LOAD_FACTOR
    \/ host.cpu_percent > MAX_CPU_UTILIZATION
    \/ host.memory_percent > 90

\* C37 (SpecOverload): an adaptation made on an overloaded host (load factor
\* above 1.5, CPU above 80 % or memory above 90 %) never raises the worker
\* target, whatever the target was, below 8 included.
C37_OverloadNeverRaises ==
    [][\A t \in Threads :
          (hist'.cycles[t] = hist.cycles[t] + 1 /\ Overloaded) =>
              run'[t].current_max_workers <= run[t].current_max_workers]_vars

\* C38 (SpecScale): a Scheduler started with a batch size between 20 and 50
\* keeps its batch size between 20 and 50 through every adaptation and
\* every reduction for memory after a batch, and every batch it fetches
\* has at most the current batch size of files.
C38_BatchSizeBounds ==
    [][\A t \in Threads :
          /\ InScheduler(t)' =>
                /\ run'[t].current_batch_size >= MIN_BATCH_SIZE
                /\ run'[t].current_batch_size <= MAX_BATCH_SIZE
          /\ (run[t].pc = "loop" /\ run'[t].pc = "submit") =>
                Len(run'[t].pending_files) <= run[t].current_batch_size]_vars

\* A batch is fetched after two adaptations and reductions for memory.
C38_Witness ==
    /\ run[1].pc = "submit"
    /\ hist.cycles[1] >= 2
    /\ host.memory_percent > 90
    /\ run[1].current_batch_size = MIN_BATCH_SIZE

\* C39 (SpecSizing): the initial sizing gives at least one worker on every
\* host of at least 1 logical CPU and 1 GB of memory.
C39_PositiveWorkers ==
    state = "idle" => workers >= 1

\* The worker invocations in flight for file f: the futures of the
\* Schedulers that are not drained yet and the thread-pool worker.
InFlight(f) ==
    Cardinality({t \in Threads : f \in run[t].futures})
        + (IF single.pc = "run" /\ single.file_id = f THEN 1 ELSE 0)

\* C40 (Spec): at any moment at most one worker invocation is in flight
\* for a file.
C40_OneInvocationPerFile ==
    \A f \in FileIds : InFlight(f) <= 1

====
